---- MODULE Spec2Model ----
(***************************************************************************)
(* Student grouping tool (src/tut_01/main.py): the Branch Classifier       *)
(* (split_by_branch), the Uniform Distributor (uniform_distribution), the  *)
(* Mixed Distributor (mixed_distribution), the Summary Reporter            *)
(* (generate_summary) and the form handler main() that runs them over the  *)
(* results/ directory tree.                                                *)
(*                                                                         *)
(* A Roll is a sequence of one-character strings.  A row of the table is   *)
(* [Sr, Roll]: Sr stands for the row's remaining columns and tells two     *)
(* rows with the same Roll apart.  A dict is a sequence of                 *)
(* [code, rows] entries in insertion order.  A directory is a function     *)
(* from file names (branch code, or the number k of group_k.csv) to the    *)
(* rows of the file.                                                       *)
(***************************************************************************)
EXTENDS Integers, Sequences, FiniteSets, TLC

\* ------------------------------------------------------------------ bounds
MaxRows == 3
MaxGroups == 2
MaxRuns == 2
MaxRecords == 6
MaxBranches == 3
MaxCallGroups == 3
MaxNegGroups == 2

\* -------------------------------------------------------------- characters
Digits == {"0", "1", "2", "3", "4", "5", "6", "7", "8", "9"}
UpperCase == <<"C", "E", "M", "S", "X">>
LowerCase == <<"c", "e", "m", "s", "x">>
Letters == {UpperCase[k] : k \in 1..Len(UpperCase)} \cup {LowerCase[k] : k \in 1..Len(LowerCase)}

IsDigit(c) == c \in Digits
IsLetter(c) == c \in Letters

\* a classifier that keeps the letters' case
KeepCase(c) == c

\* str.upper() on one character
ToUpper(c) ==
  IF \E k \in 1..Len(LowerCase) : LowerCase[k] = c
  THEN UpperCase[CHOOSE k \in 1..Len(LowerCase) : LowerCase[k] = c]
  ELSE c

StrUpper(s) == [k \in 1..Len(s) |-> ToUpper(s[k])]

\* position of an upper-case letter in the alphabet, for sorted()
Ord(c) == CHOOSE k \in 1..Len(UpperCase) : UpperCase[k] = c

\* the missing value pandas puts where the regex did not match
NaN == <<>>

\* re.compile(r'^[0-9]{4}([A-Za-z]{2})[0-9]{2}').match(s): a prefix match
PatternMatch(s) ==
  /\ Len(s) >= 8
  /\ \A k \in 1..4 : IsDigit(s[k])
  /\ IsLetter(s[5]) /\ IsLetter(s[6])
  /\ IsDigit(s[7]) /\ IsDigit(s[8])

\* match.group(1)
MatchGroup1(s) == SubSeq(s, 5, 6)

\* str.extract(r'^(?:\d{4}([A-Za-z]{2})\d{2}|([A-Za-z]{2}))$'), then
\* extracted[0].fillna(extracted[1]): the whole string must match
ExtractCode(s) ==
  IF /\ Len(s) = 8
     /\ \A k \in 1..4 : IsDigit(s[k])
     /\ IsLetter(s[5]) /\ IsLetter(s[6])
     /\ IsDigit(s[7]) /\ IsDigit(s[8])
  THEN SubSeq(s, 5, 6)
  ELSE IF Len(s) = 2 /\ IsLetter(s[1]) /\ IsLetter(s[2])
       THEN s
       ELSE NaN

\* ------------------------------------------------------------------ inputs
Roll_CS01 == <<"2", "0", "2", "3", "C", "S", "0", "1">>
Roll_cs02 == <<"2", "0", "2", "3", "c", "s", "0", "2">>
Roll_EC01 == <<"2", "0", "2", "3", "E", "C", "0", "1">>
Roll_CS03X == <<"2", "0", "2", "3", "C", "S", "0", "3", "X">>
Roll_bad == <<"2", "3", "C", "S", "0", "0", "0", "1">>

RollPool == {Roll_CS01, Roll_cs02, Roll_EC01, Roll_CS03X, Roll_bad}
RerunPool == {Roll_CS01, Roll_EC01}

\* the tables of at most MaxRows rows whose Roll column is drawn from pool
Tables(pool) == UNION {[1..n -> pool] : n \in 0..MaxRows}

\* pd.read_excel: row k of the sheet
ReadTable(rolls) == [k \in 1..Len(rolls) |-> [Sr |-> k, Roll |-> rolls[k]]]

\* ------------------------------------------------------------------- dicts
Keys(d) == [k \in 1..Len(d) |-> d[k].code]
HasKey(d, c) == \E k \in 1..Len(d) : d[k].code = c
IndexOf(d, c) == CHOOSE k \in 1..Len(d) : d[k].code = c
Get(d, c) == d[IndexOf(d, c)].rows

\* d.setdefault(c, []).append(row)
SetDefaultAppend(d, c, row) ==
  IF HasKey(d, c)
  THEN [d EXCEPT ![IndexOf(d, c)].rows = Append(@, row)]
  ELSE Append(d, [code |-> c, rows |-> <<row>>])

\* del d[c]
Del(d, c) == SelectSeq(d, LAMBDA e : e.code # c)

\* d[c].pop(0)
PopFront(d, c) == [d EXCEPT ![IndexOf(d, c)].rows = Tail(@)]

RECURSIVE Flatten(_)
Flatten(d) == IF d = <<>> THEN <<>> ELSE Head(d).rows \o Flatten(Tail(d))

RECURSIVE SumLen(_)
SumLen(d) == IF d = <<>> THEN 0 ELSE Len(Head(d).rows) + SumLen(Tail(d))

\* Python's divmod(a, b) for a >= 0 and b # 0: floor division
FloorDiv(a, b) == IF b > 0 THEN a \div b ELSE 0 - ((a + (0 - b) - 1) \div (0 - b))
PyMod(a, b) == a - b * FloorDiv(a, b)

\* range(n) has max(n, 0) elements
RangeLen(n) == IF n > 0 THEN n ELSE 0

\* ------------------------------------------------------------------- state
VARIABLES
  pc,           \* the statement main() or the called function is at
  ctx,          \* "main": run by the form handler; "call": the functions called directly
  runs,         \* form submissions so far
  df,           \* the input table
  group_count,  \* the number of groups asked for
  branch_data,  \* split_by_branch's mapping: branch code -> rows
  printed,      \* the Rolls printed as invalid
  size,         \* mixed_distribution's locals
  remainder,
  pools,
  groups,
  i,
  keys,
  leftovers,
  idx,
  ret,          \* what each stage returned or raised, and what the page shows
  fs            \* the results/ tree: directory -> file -> rows

vars == <<pc, ctx, runs, df, group_count, branch_data, printed, size, remainder,
          pools, groups, i, keys, leftovers, idx, ret, fs>>

locals == <<size, remainder, pools, groups, i, keys, leftovers, idx>>

NoRet == [split |-> "none", uniform |-> "none", mixed |-> "none", summary |-> "none", page |-> "none"]

NoTable == [cols |-> <<>>, uniform |-> <<>>, mixed |-> <<>>]

\* ------------------------------------------------------------- file system
EmptyDir == <<>>

\* the results/ tree before the first run: nothing exists
NoTree == [made |-> FALSE, branchwise |-> EmptyDir, uniform |-> EmptyDir,
           mixed |-> EmptyDir, summary |-> NoTable]

\* os.makedirs(path, exist_ok=True) for every directory: an existing directory
\* is left as it is, with the files it holds
MakeDirs(tree) == IF tree.made THEN tree ELSE [tree EXCEPT !.made = TRUE]

\* save_csv(rows, columns, <code>.csv) for every bucket of the mapping
SaveBranches(dir, grouped) ==
  [c \in DOMAIN dir \cup {grouped[k].code : k \in 1..Len(grouped)} |->
     IF HasKey(grouped, c) THEN Get(grouped, c) ELSE dir[c]]

\* group_<k>.csv written for k = 1..Len(gs); other files stay
WriteGroups(dir, gs) ==
  [k \in DOMAIN dir \cup (1..Len(gs)) |-> IF k \in 1..Len(gs) THEN gs[k] ELSE dir[k]]

\* --------------------------------------------------------- split_by_branch
RECURSIVE ClassifyRows(_, _, _)
ClassifyRows(rows, grouped, out) ==
  IF rows = <<>> THEN [grouped |-> grouped, printed |-> out]
  ELSE LET row == Head(rows) IN
       IF PatternMatch(row.Roll)
       THEN ClassifyRows(Tail(rows),
                         SetDefaultAppend(grouped, StrUpper(MatchGroup1(row.Roll)), row),
                         out)
       ELSE ClassifyRows(Tail(rows), grouped, Append(out, row.Roll))

\* ---------------------------------------------------- uniform_distribution
\* a sort that reverses the order of equally long entries, as
\* sorted(items, key=len)[::-1] does
RECURSIVE InsertBeforeEqual(_, _)
InsertBeforeEqual(sorted, e) ==
  IF sorted = <<>> THEN <<e>>
  ELSE IF Len(Head(sorted).rows) > Len(e.rows)
       THEN <<Head(sorted)>> \o InsertBeforeEqual(Tail(sorted), e)
       ELSE <<e>> \o sorted

\* sorted(items, key=len, reverse=True) is stable: an entry goes after every
\* entry that is at least as long
RECURSIVE InsertBySize(_, _)
InsertBySize(sorted, e) ==
  IF sorted = <<>> THEN <<e>>
  ELSE IF Len(Head(sorted).rows) >= Len(e.rows)
       THEN <<Head(sorted)>> \o InsertBySize(Tail(sorted), e)
       ELSE <<e>> \o sorted

RECURSIVE SortedBySizeDesc(_)
SortedBySizeDesc(d) ==
  IF d = <<>> THEN <<>>
  ELSE InsertBySize(SortedBySizeDesc(SubSeq(d, 1, Len(d) - 1)), d[Len(d)])

\* merged.iloc[start:end] for 0 <= start <= end
ILoc(merged, start, end) ==
  SubSeq(merged, start + 1, IF end < Len(merged) THEN end ELSE Len(merged))

\* the loop over range(group_count): n groups left, the remainder counter, the pointer
RECURSIVE SliceLoop(_, _, _, _, _)
SliceLoop(merged, n, sz, rem, pointer) ==
  IF n = 0 THEN <<>>
  ELSE LET end == pointer + sz + (IF rem > 0 THEN 1 ELSE 0) IN
       <<ILoc(merged, pointer, end)>>
         \o SliceLoop(merged, n - 1, sz, IF rem > 0 THEN rem - 1 ELSE rem, end)

UniformGroups(merged, n) ==
  SliceLoop(merged, RangeLen(n), FloorDiv(Len(merged), n), PyMod(Len(merged), n), 0)

\* ------------------------------------------------------ mixed_distribution
\* leftovers assigned instead of extended: only the last queue is kept
LastQueueOnly(p) == IF p = <<>> THEN <<>> ELSE p[Len(p)].rows

\* leftovers = []; for rest in pools.values(): leftovers.extend(rest)
Leftovers(p) == Flatten(p)

\* groups[g] for a Python list of length n: the 1-based position, 0 when out of range
PyIndex(n, g) ==
  IF 0 <= g /\ g < n THEN g + 1
  ELSE IF g < 0 /\ 0 - n <= g THEN n + g + 1
  ELSE 0

\* -------------------------------------------------------- generate_summary
CodeLess(a, b) ==
  \/ Ord(a[1]) < Ord(b[1])
  \/ Ord(a[1]) = Ord(b[1]) /\ Ord(a[2]) < Ord(b[2])

RECURSIVE SortedCodes(_)
SortedCodes(S) ==
  IF S = {} THEN <<>>
  ELSE LET m == CHOOSE x \in S : \A y \in S \ {x} : CodeLess(x, y) IN
       <<m>> \o SortedCodes(S \ {m})

\* the files of a folder ordered by the number in their name
RECURSIVE SortedFiles(_)
SortedFiles(S) ==
  IF S = {} THEN <<>>
  ELSE LET m == CHOOSE x \in S : \A y \in S : x <= y IN
       <<m>> \o SortedFiles(S \ {m})

\* codes.value_counts() of one file: the upper-cased codes that occur (NaN is dropped)
CodesOf(file) ==
  {StrUpper(ExtractCode(file[k].Roll)) : k \in 1..Len(file)} \ {NaN}

CountOf(file, c) ==
  Cardinality({k \in 1..Len(file) : StrUpper(ExtractCode(file[k].Roll)) = c})

\* read_stats(folder): one row per file, one column per code seen in the folder
ReadStats(dir) ==
  LET files == SortedFiles(DOMAIN dir)
      codes == UNION {CodesOf(dir[f]) : f \in DOMAIN dir}
  IN [cols |-> SortedCodes(codes),
      rows |-> [n \in 1..Len(files) |->
                  [Group |-> n,
                   Count |-> [c \in codes |-> CountOf(dir[files[n]], c)],
                   Total |-> Len(dir[files[n]])]]]

ColSet(cols) == {cols[k] : k \in 1..Len(cols)}

\* tab.reindex(columns=cols, fill_value=0): Group and Total are columns of cols
Reindex(rows, cols) ==
  [n \in 1..Len(rows) |->
     [Group |-> rows[n].Group,
      Count |-> [c \in ColSet(cols) |->
                   IF c \in DOMAIN rows[n].Count THEN rows[n].Count[c] ELSE 0],
      Total |-> rows[n].Total]]

\* the combined table: the uniform table's columns when it has rows
Combined(uniform_df, mixed_df) ==
  LET cols == IF uniform_df.rows # <<>> THEN uniform_df.cols
              ELSE IF mixed_df.rows # <<>> THEN mixed_df.cols ELSE <<>>
  IN [cols |-> cols, uniform |-> uniform_df.rows, mixed |-> Reindex(mixed_df.rows, cols)]

\* ----------------------------------------------------------------- actions
\* an exception: main() catches it and shows st.error; a direct caller gets it
Raise(stage, exc) ==
  /\ ret' = [ret EXCEPT ![stage] = exc, !.page = IF ctx = "main" THEN "Error" ELSE @]
  /\ pc' = IF ctx = "main" THEN "error"
           ELSE IF stage = "uniform" THEN "mixed" ELSE "returned"

ResetLocals ==
  /\ size' = 0 /\ remainder' = 0 /\ pools' = <<>> /\ groups' = <<>>
  /\ i' = 0 /\ keys' = <<>> /\ leftovers' = <<>> /\ idx' = 0

\* the form is submitted with a file and a group count (min_value = 1)
Upload(rolls, n) ==
  /\ df' = ReadTable(rolls)
  /\ group_count' = n
  /\ runs' = runs + 1
  /\ branch_data' = <<>>
  /\ printed' = <<>>
  /\ ret' = NoRet
  /\ ResetLocals
  /\ pc' = "setup"
  /\ UNCHANGED <<ctx, fs>>

Submit ==
  /\ pc = "form"
  /\ runs = 0
  /\ \E rolls \in Tables(RollPool), n \in 1..MaxGroups : Upload(rolls, n)

Resubmit ==
  /\ pc \in {"form", "done", "error"}
  /\ runs < MaxRuns
  /\ \E rolls \in Tables(RerunPool), n \in 1..MaxGroups : Upload(rolls, n)

\* the form is submitted without a file
SubmitNoFile ==
  /\ pc = "form"
  /\ ret' = [ret EXCEPT !.page = "Please upload a file to continue."]
  /\ UNCHANGED <<pc, ctx, runs, df, group_count, branch_data, printed, locals, fs>>

setup_directories ==
  /\ pc = "setup"
  /\ fs' = MakeDirs(fs)
  /\ pc' = "split"
  /\ UNCHANGED <<ctx, runs, df, group_count, branch_data, printed, locals, ret>>

split_by_branch ==
  /\ pc = "split"
  /\ LET r == ClassifyRows(df, <<>>, <<>>) IN
       /\ branch_data' = r.grouped
       /\ printed' = r.printed
       /\ fs' = [fs EXCEPT !.branchwise = SaveBranches(@, r.grouped)]
  /\ ret' = [ret EXCEPT !.split = "Branchwise files created successfully."]
  /\ pc' = "uniform"
  /\ UNCHANGED <<ctx, runs, df, group_count, locals>>

uniform_distribution ==
  /\ pc = "uniform"
  /\ IF branch_data = <<>>
     THEN \* pd.concat([]) raises
          Raise("uniform", "ValueError: No objects to concatenate") /\ UNCHANGED fs
     ELSE IF group_count = 0
     THEN Raise("uniform", "ZeroDivisionError") /\ UNCHANGED fs
     ELSE /\ fs' = [fs EXCEPT !.uniform =
                      WriteGroups(@, UniformGroups(Flatten(SortedBySizeDesc(branch_data)),
                                                   group_count))]
          /\ ret' = [ret EXCEPT !.uniform = "Uniform groups saved."]
          /\ pc' = "mixed"
  /\ UNCHANGED <<ctx, runs, df, group_count, branch_data, printed, locals>>

\* lines 74-78: divmod, the pools and the empty groups
mixed_start ==
  /\ pc = "mixed"
  /\ IF group_count = 0
     THEN Raise("mixed", "ZeroDivisionError") /\ UNCHANGED locals
     ELSE /\ size' = FloorDiv(SumLen(branch_data), group_count)
          /\ remainder' = PyMod(SumLen(branch_data), group_count)
          /\ pools' = branch_data
          /\ groups' = [k \in 1..RangeLen(group_count) |-> <<>>]
          /\ i' = 0
          /\ pc' = "fill"
          /\ UNCHANGED <<keys, leftovers, idx, ret>>
  /\ UNCHANGED <<ctx, runs, df, group_count, branch_data, printed, fs>>

\* lines 81-83: the heads of "for i in range(group_count)" and of the while loop;
\* after the last group, lines 92-96 collect the leftovers
mixed_fill ==
  /\ pc = "fill"
  /\ IF i >= RangeLen(group_count)
     THEN /\ leftovers' = Leftovers(pools)
          /\ idx' = 0
          /\ pc' = "leftover"
          /\ UNCHANGED <<i, keys>>
     ELSE IF Len(groups[i + 1]) < size /\ pools # <<>>
     THEN /\ keys' = Keys(pools)
          /\ pc' = "fill_branch"
          /\ UNCHANGED <<i, leftovers, idx>>
     ELSE /\ i' = i + 1
          /\ UNCHANGED <<pc, keys, leftovers, idx>>
  /\ UNCHANGED <<ctx, runs, df, group_count, branch_data, printed, size, remainder,
                 pools, groups, ret, fs>>

\* lines 83-89: one turn of "for branch in list(pools.keys())"
mixed_fill_branch ==
  /\ pc = "fill_branch"
  /\ IF keys = <<>>
     THEN pc' = "fill" /\ UNCHANGED <<pools, groups, keys>>
     ELSE LET branch == Head(keys)
              has == Get(pools, branch) # <<>>
              g1 == IF has THEN [groups EXCEPT ![i + 1] = Append(@, Head(Get(pools, branch)))]
                    ELSE groups
              p1 == IF has THEN PopFront(pools, branch) ELSE pools
              p2 == IF Get(p1, branch) = <<>> THEN Del(p1, branch) ELSE p1
          IN /\ groups' = g1
             /\ pools' = p2
             /\ IF Len(g1[i + 1]) = size
                THEN keys' = <<>> /\ pc' = "fill"
                ELSE keys' = Tail(keys) /\ pc' = pc
  /\ UNCHANGED <<ctx, runs, df, group_count, branch_data, printed, size, remainder,
                 i, leftovers, idx, ret, fs>>

\* lines 97-99: one turn of "while leftovers"
mixed_leftover ==
  /\ pc = "leftover"
  /\ IF leftovers = <<>>
     THEN pc' = "save" /\ UNCHANGED <<groups, leftovers, idx, ret>>
     ELSE LET g == PyIndex(Len(groups), PyMod(idx, group_count)) IN
          IF g = 0
          THEN Raise("mixed", "IndexError") /\ UNCHANGED <<groups, leftovers, idx>>
          ELSE /\ groups' = [groups EXCEPT ![g] = Append(@, Head(leftovers))]
               /\ leftovers' = Tail(leftovers)
               /\ idx' = idx + 1
               /\ UNCHANGED <<pc, ret>>
  /\ UNCHANGED <<ctx, runs, df, group_count, branch_data, printed, size, remainder,
                 pools, i, keys, fs>>

\* lines 102-105
mixed_save ==
  /\ pc = "save"
  /\ fs' = [fs EXCEPT !.mixed = WriteGroups(@, groups)]
  /\ ret' = [ret EXCEPT !.mixed = "Mixed groups saved."]
  /\ pc' = IF ctx = "main" THEN "summary" ELSE "returned"
  /\ UNCHANGED <<ctx, runs, df, group_count, branch_data, printed, locals>>

generate_summary ==
  /\ pc = "summary"
  /\ fs' = [fs EXCEPT !.summary = Combined(ReadStats(fs.uniform), ReadStats(fs.mixed))]
  /\ ret' = [ret EXCEPT !.summary = "Stats file saved.", !.page = "Download Results (ZIP)"]
  /\ pc' = "done"
  /\ UNCHANGED <<ctx, runs, df, group_count, branch_data, printed, locals>>

\* ---------------------------------------------------------- specifications
\* the page, opened on an empty working directory, and one submission
Init ==
  /\ pc = "form" /\ ctx = "main" /\ runs = 0
  /\ df = <<>> /\ group_count = 1
  /\ branch_data = <<>> /\ printed = <<>>
  /\ size = 0 /\ remainder = 0 /\ pools = <<>> /\ groups = <<>>
  /\ i = 0 /\ keys = <<>> /\ leftovers = <<>> /\ idx = 0
  /\ ret = NoRet
  /\ fs = NoTree

Next ==
  \/ Submit
  \/ SubmitNoFile
  \/ setup_directories
  \/ split_by_branch
  \/ uniform_distribution
  \/ mixed_start
  \/ mixed_fill
  \/ mixed_fill_branch
  \/ mixed_leftover
  \/ mixed_save
  \/ generate_summary

Spec == Init /\ [][Next]_vars

\* the page submitted again and again over the same working directory
NextRerun ==
  \/ Resubmit
  \/ setup_directories
  \/ split_by_branch
  \/ uniform_distribution
  \/ mixed_start
  \/ mixed_fill
  \/ mixed_fill_branch
  \/ mixed_leftover
  \/ mixed_save
  \/ generate_summary

SpecRerun == Init /\ [][NextRerun]_vars

\* the two distributors called directly on a mapping and a group count
BranchCode(b) ==
  <<UpperCase[((b - 1) % Len(UpperCase)) + 1], UpperCase[(b % Len(UpperCase)) + 1]>>

RECURSIVE SumTo(_, _)
SumTo(v, n) == IF n = 0 THEN 0 ELSE v[n] + SumTo(v, n - 1)

SizeVectors ==
  {v \in UNION {[1..n -> 0..MaxRecords] : n \in 0..MaxBranches} : SumTo(v, Len(v)) <= MaxRecords}

MappingOf(v) ==
  [b \in 1..Len(v) |->
     [code |-> BranchCode(b),
      rows |-> [j \in 1..v[b] |->
                  [Sr |-> SumTo(v, b - 1) + j,
                   Roll |-> <<"2", "0", "2", "3">> \o BranchCode(b) \o <<"0", "1">>]]]]

InitDist ==
  /\ pc = "uniform" /\ ctx = "call" /\ runs = 0
  /\ \E v \in SizeVectors : branch_data = MappingOf(v)
  /\ df = Flatten(branch_data)
  /\ group_count \in (0 - MaxNegGroups)..MaxCallGroups
  /\ printed = <<>>
  /\ size = 0 /\ remainder = 0 /\ pools = <<>> /\ groups = <<>>
  /\ i = 0 /\ keys = <<>> /\ leftovers = <<>> /\ idx = 0
  /\ ret = NoRet
  /\ fs = MakeDirs(NoTree)

NextDist ==
  \/ uniform_distribution
  \/ mixed_start
  \/ mixed_fill
  \/ mixed_fill_branch
  \/ mixed_leftover
  \/ mixed_save

SpecDist == InitDist /\ [][NextDist]_vars

\* ------------------------------------------------------------------ claims
\* the places <<file, line>> of a directory of group files where row r stands
Places(dir, r) ==
  UNION {{<<g, k>> : k \in {j \in 1..Len(dir[g]) : dir[g][j] = r}} : g \in DOMAIN dir}

RECURSIVE TotalRows(_, _)
TotalRows(dir, S) ==
  IF S = {} THEN 0
  ELSE LET g == CHOOSE x \in S : TRUE IN Len(dir[g]) + TotalRows(dir, S \ {g})

RowSet(d) == {Flatten(d)[k] : k \in 1..Len(Flatten(d))}

\* the size group k (1-based) is to have: size + 1 for the first remainder groups
DueSize(total, n, k) == (total \div n) + (IF k <= total % n THEN 1 ELSE 0)

\* C1: after mixed_distribution has finished for a group count N >= 1, it has
\* returned normally, there are N group files, every record of every bucket
\* stands at exactly one place of exactly one group, and the group sizes sum to
\* the number of classified records.
C1_MixedConservation ==
  (pc = "returned" /\ group_count >= 1) =>
    /\ ret.mixed = "Mixed groups saved."
    /\ DOMAIN fs.mixed = 1..group_count
    /\ groups = [k \in 1..group_count |-> fs.mixed[k]]
    /\ \A r \in RowSet(branch_data) : Cardinality(Places(fs.mixed, r)) = 1
    /\ \A g \in DOMAIN fs.mixed : \A k \in 1..Len(fs.mixed[g]) :
         fs.mixed[g][k] \in RowSet(branch_data)
    /\ TotalRows(fs.mixed, DOMAIN fs.mixed) = SumLen(branch_data)

\* a run where both the fill phase and the leftover phase placed records of
\* several buckets
C1_Witness ==
  /\ pc = "returned" /\ group_count >= 2
  /\ size >= 1 /\ remainder >= 2
  /\ Len(branch_data) >= 2
  /\ \A b \in 1..Len(branch_data) : branch_data[b].rows # <<>>
  /\ Cardinality({b \in 1..Len(pools) : pools[b].rows # <<>>}) >= 2
  /\ ret.mixed = "Mixed groups saved."

\* the permutation of the buckets by descending size, equal sizes in first-seen order
SizeOrder(d) ==
  CHOOSE f \in [1..Len(d) -> 1..Len(d)] :
    /\ \A p, q \in 1..Len(d) : p # q => f[p] # f[q]
    /\ \A p, q \in 1..Len(d) : p < q =>
         \/ Len(d[f[p]].rows) > Len(d[f[q]].rows)
         \/ Len(d[f[p]].rows) = Len(d[f[q]].rows) /\ f[p] < f[q]

RECURSIVE ConcatInOrder(_, _, _)
ConcatInOrder(d, f, k) ==
  IF k > Len(d) THEN <<>> ELSE d[f[k]].rows \o ConcatInOrder(d, f, k + 1)

RECURSIVE ConcatFiles(_, _, _)
ConcatFiles(dir, k, n) ==
  IF k > n THEN <<>> ELSE dir[k] \o ConcatFiles(dir, k + 1, n)

Min(a, b) == IF a < b THEN a ELSE b

\* C2: for a non-empty mapping and N >= 1 uniform_distribution returns normally
\* and writes N files; file k is the slice of the size-ordered concatenation
\* that starts after the first k-1 groups and has size+1 rows for k <= remainder
\* and size rows otherwise; the files concatenated give the sequence back and
\* their sizes differ by at most one.
C2_UniformSlices ==
  (pc # "uniform" /\ ctx = "call" /\ group_count >= 1 /\ branch_data # <<>>) =>
    LET merged == ConcatInOrder(branch_data, SizeOrder(branch_data), 1)
        total == SumLen(branch_data)
        sz == total \div group_count
        rem == total % group_count
    IN /\ ret.uniform = "Uniform groups saved."
       /\ DOMAIN fs.uniform = 1..group_count
       /\ \A k \in 1..group_count :
            LET start == (k - 1) * sz + Min(k - 1, rem) IN
              /\ Len(fs.uniform[k]) = DueSize(total, group_count, k)
              /\ fs.uniform[k] = SubSeq(merged, start + 1, start + DueSize(total, group_count, k))
       /\ ConcatFiles(fs.uniform, 1, group_count) = merged
       /\ \A j, k \in 1..group_count :
            Len(fs.uniform[j]) - Len(fs.uniform[k]) <= 1

\* two buckets of equal size that the sort must keep in first-seen order, a
\* larger one behind them, and a remainder
C2_Witness ==
  /\ pc = "returned" /\ ret.uniform = "Uniform groups saved."
  /\ group_count >= 2
  /\ SumLen(branch_data) % group_count > 0
  /\ Len(branch_data) >= 3
  /\ Len(branch_data[1].rows) = Len(branch_data[2].rows)
  /\ Len(branch_data[1].rows) >= 1
  /\ Len(branch_data[3].rows) > Len(branch_data[1].rows)

\* a Roll that starts with 4 digits, 2 letters and 2 digits
HasRollPrefix(s) ==
  /\ Len(s) >= 8
  /\ {s[1], s[2], s[3], s[4], s[7], s[8]} \subseteq Digits
  /\ {s[5], s[6]} \subseteq Letters

\* the two letters of the Roll, upper-cased
UpperOf(c) ==
  IF \E j \in 1..Len(LowerCase) : LowerCase[j] = c
  THEN UpperCase[CHOOSE j \in 1..Len(LowerCase) : LowerCase[j] = c]
  ELSE c

BranchOf(s) == <<UpperOf(s[5]), UpperOf(s[6])>>

BucketPlaces(d, row) ==
  UNION {{<<b, k>> : k \in {j \in 1..Len(d[b].rows) : d[b].rows[j] = row}} : b \in 1..Len(d)}

\* C3: after split_by_branch every row whose Roll has the prefix stands at
\* exactly one place, in the bucket keyed by its two letters upper-cased; every
\* other row stands in no bucket and its Roll is printed; keys are distinct,
\* every bucket lists rows of the table in input order, and the buckets and the
\* printed rows together count every input row once.
C3_ClassifierPartition ==
  ret.split # "none" =>
    /\ ret.split = "Branchwise files created successfully."
    /\ \A a, b \in 1..Len(branch_data) : a # b => branch_data[a].code # branch_data[b].code
    /\ \A k \in 1..Len(df) :
         IF HasRollPrefix(df[k].Roll)
         THEN /\ Cardinality(BucketPlaces(branch_data, df[k])) = 1
              /\ \E b \in 1..Len(branch_data) :
                   /\ branch_data[b].code = BranchOf(df[k].Roll)
                   /\ \E j \in 1..Len(branch_data[b].rows) : branch_data[b].rows[j] = df[k]
         ELSE /\ BucketPlaces(branch_data, df[k]) = {}
              /\ \E j \in 1..Len(printed) : printed[j] = df[k].Roll
    /\ \A b \in 1..Len(branch_data) :
         /\ branch_data[b].rows # <<>>
         /\ \A j \in 1..Len(branch_data[b].rows) :
              LET row == branch_data[b].rows[j] IN
                /\ row.Sr \in 1..Len(df) /\ df[row.Sr] = row
                /\ j > 1 => branch_data[b].rows[j - 1].Sr < row.Sr
    /\ Len(printed) = Cardinality({k \in 1..Len(df) : ~HasRollPrefix(df[k].Roll)})
    /\ SumLen(branch_data) + Len(printed) = Len(df)
    /\ fs.branchwise = [c \in {branch_data[b].code : b \in 1..Len(branch_data)} |->
                          Get(branch_data, c)]

\* a table with two Rolls that differ in letter case in one bucket and a Roll
\* that does not match
C3_Witness ==
  /\ ret.split # "none"
  /\ Len(branch_data) = 1
  /\ Len(branch_data[1].rows) = 2
  /\ branch_data[1].rows[1].Roll = Roll_cs02
  /\ branch_data[1].rows[2].Roll = Roll_CS01
  /\ printed = <<Roll_bad>>

\* C4: for a group count <= 0 mixed_distribution ends with an explicit
\* validation error: not with a division by zero or another incidental error,
\* and not with its success message.
C4_MixedValidation ==
  (pc = "returned" /\ group_count <= 0) => ret.mixed = "ValidationError"

\* C5: when a run of the pipeline is done, the uniform and the mixed directory
\* hold exactly group_1..group_N of this run, the branchwise directory exactly
\* the branch files of this run's input, and the summary has one row per group
\* of this run in both sections.
C5_Regenerated ==
  pc = "done" =>
    /\ DOMAIN fs.uniform = 1..group_count
    /\ DOMAIN fs.mixed = 1..group_count
    /\ DOMAIN fs.branchwise = {branch_data[b].code : b \in 1..Len(branch_data)}
    /\ Len(fs.summary.uniform) = group_count
    /\ Len(fs.summary.mixed) = group_count

RECURSIVE SumCounts(_, _)
SumCounts(count, S) ==
  IF S = {} THEN 0
  ELSE LET c == CHOOSE x \in S : TRUE IN count[c] + SumCounts(count, S \ {c})

RowConsistent(row) == SumCounts(row.Count, DOMAIN row.Count) = row.Total

\* C6: in the combined summary of a run, in every group row of both sections
\* the per-branch counts sum to the row's Total.
C6_RowSums ==
  pc = "done" =>
    /\ \A n \in 1..Len(fs.summary.uniform) : RowConsistent(fs.summary.uniform[n])
    /\ \A n \in 1..Len(fs.summary.mixed) : RowConsistent(fs.summary.mixed[n])

\* the mixed distributor's part of C7: the fill phase leaves size records in
\* every group and remainder records in the queues, no group ever exceeds
\* size + 1, and group k ends with size + 1 records for k <= remainder and size
\* records otherwise
MixedSizes ==
  (ctx = "call" /\ group_count >= 1 /\ pc \in {"fill", "fill_branch", "leftover", "save", "returned"}) =>
    /\ size = SumLen(branch_data) \div group_count
    /\ remainder = SumLen(branch_data) % group_count
    /\ \A g \in 1..Len(groups) : Len(groups[g]) <= size + 1
    /\ (pc = "leftover" /\ idx = 0) =>
         /\ \A g \in 1..group_count : Len(groups[g]) = size
         /\ Len(leftovers) = remainder
    /\ pc = "returned" =>
         /\ DOMAIN fs.mixed = 1..group_count
         /\ \A k \in 1..group_count :
              Len(fs.mixed[k]) = DueSize(SumLen(branch_data), group_count, k)

\* C7: MixedSizes, and for every mapping and N >= 1 the sizes of the mixed
\* group files equal the sizes of the uniform group files for the same input.
C7_MixedSizesAsUniform ==
  /\ MixedSizes
  /\ (pc = "returned" /\ group_count >= 1) =>
       /\ DOMAIN fs.uniform = DOMAIN fs.mixed
       /\ \A k \in DOMAIN fs.mixed : Len(fs.uniform[k]) = Len(fs.mixed[k])

\* the records of bucket b among the first n records of a group
CountInPrefix(grp, n, b) ==
  Cardinality({k \in 1..Min(n, Len(grp)) :
                 \E j \in 1..Len(branch_data[b].rows) : branch_data[b].rows[j] = grp[k]})

\* C8: for N >= 1 and size >= 1, in every mixed group the number of records of
\* a branch among the first size records differs from the branch's share
\* |bucket| * size / total by less than one.
C8_Proportional ==
  (pc = "returned" /\ group_count >= 1 /\ size >= 1 /\ ret.mixed = "Mixed groups saved.") =>
    \A g \in DOMAIN fs.mixed : \A b \in 1..Len(branch_data) :
      LET total == SumLen(branch_data)
          diff == CountInPrefix(fs.mixed[g], size, b) * total - Len(branch_data[b].rows) * size
      IN (IF diff < 0 THEN 0 - diff ELSE diff) < total

\* C9: for N >= 1 greater than the number of classified records (an empty
\* mapping included) uniform_distribution returns normally and writes N files:
\* one record in each of the first total files, none in the later ones.
C9_MoreGroupsThanRecords ==
  (ctx = "call" /\ pc # "uniform" /\ group_count >= 1 /\ group_count > SumLen(branch_data)) =>
    /\ ret.uniform = "Uniform groups saved."
    /\ DOMAIN fs.uniform = 1..group_count
    /\ \A k \in 1..group_count :
         Len(fs.uniform[k]) = IF k <= SumLen(branch_data) THEN 1 ELSE 0

\* C10: the combined summary has a column for every branch code counted in a
\* file of the uniform or of the mixed directory.
C10_ColumnSuperset ==
  pc = "done" =>
    \A c \in UNION ({CodesOf(fs.uniform[f]) : f \in DOMAIN fs.uniform}
                      \cup {CodesOf(fs.mixed[f]) : f \in DOMAIN fs.mixed}) :
      c \in ColSet(fs.summary.cols)
====
